---- MODULE Spec2Model ----
(***************************************************************************)
(* developer-primer: the generator of src/cpp/coroutines/main.cc (the      *)
(* coroutine frame of counter, its promise, the Generator handles that     *)
(* refer to it and the pull loop of main) and the constraint vocabulary    *)
(* of src/cpp/concepts/main.cc (are_same_v, Multipliable).                 *)
(***************************************************************************)
EXTENDS Integers, Sequences, FiniteSets, TLC

\* Bounds of the model.
MaxVal == 5
MaxHandles == 3
MaxPack == 3
MaxArgs == 3
MaxArgVal == 4

Vals == 0..MaxVal
HandleIds == 1..MaxHandles

VARIABLES
    frame,      \* the coroutine frame of counter: resume point, locals start/end, promise mValue
    handles,    \* Generator objects: lifetime and mCoroHdl
    running,    \* "consumer" or "producer": whose code is executing
    pc,         \* the consumer's position
    inNext,     \* the Generator whose next() has resumed the producer, 0 if none
    out,        \* what main has written to std::cout
    term,       \* "running", "exited", "terminated" (std::terminate), "crashed"
    ub,         \* the kinds of undefined behaviour that have been executed
    destroys,   \* how many times coroutine_handle::destroy() was invoked on the frame
    doneRet,    \* the value the last call of done() returned ({} before any call)
    pack,       \* the pack of argument types handed to the constraint vocabulary
    verdict,    \* what the constraint vocabulary answered for pack
    call,       \* the arguments of a call of Add or Multiply: type, value category, value
    result      \* what became of that call

vars == <<frame, handles, running, pc, inNext, out, term, ub, destroys, doneRet,
          pack, verdict, call, result>>

conceptVars == <<pack, verdict, call, result>>

-----------------------------------------------------------------------------
(* The promise and the coroutine frame.                                    *)

\* Resume points at which a frame is suspended, and positions at which its body runs.
SuspendedPts == {"initial", "yielded", "final"}

RunningPts == {"test", "co_yield", "incr", "return_void"}

\* Before counter is called there is no frame.
NoFrame ==
    [pt |-> "unborn", first |-> 0, start |-> 0, end |-> 0, mValue |-> 0,
     stored |-> FALSE, yields |-> <<>>, steps |-> 0, resumes |-> 0, from |-> "none",
     returned |-> FALSE, raised |-> FALSE]

NoHandle == [life |-> "unborn", mCoroHdl |-> "null"]

\* A variant of initial_suspend that returns std::suspend_never.
InitialSuspendNever == "suspend_never"

\* std::suspend_always initial_suspend() { return {}; }
InitialSuspend == "suspend_always"

\* std::suspend_always final_suspend() noexcept { return {}; }
FinalSuspend == "suspend_always"

\* A variant of yield_value that returns std::suspend_never.
YieldValueNoSuspend(fr, value) ==
    [promise |-> [fr EXCEPT !.mValue = value, !.stored = TRUE,
                            !.yields = Append(@, value)],
     awaiter |-> "suspend_never"]

\* yield_value: mValue = std::move(value); return std::suspend_always{}.
YieldValue(fr, value) ==
    [promise |-> [fr EXCEPT !.mValue = value, !.stored = TRUE,
                            !.yields = Append(@, value)],
     awaiter |-> "suspend_always"]

\* A variant of unhandled_exception with an empty body.
UnhandledExceptionReturns == "return"

\* void unhandled_exception() { std::terminate(); }
UnhandledException == "terminate"

\* get_return_object() { return G{this}; } with Generator(promise_type* p):
\* a handle made from the promise of the frame.
GetReturnObject == [life |-> "alive", mCoroHdl |-> "frame"]

\* A call of counter(a, b): the frame is allocated, start and end are copied into
\* it, the promise is default-initialised (mValue is indeterminate: g), and the
\* body is entered only if initial_suspend does not suspend.
CounterFrame(a, b, g) ==
    [pt |-> IF InitialSuspend = "suspend_always" THEN "initial" ELSE "test",
     first |-> a, start |-> a, end |-> b, mValue |-> g,
     stored |-> FALSE, yields |-> <<>>, steps |-> 0, resumes |-> 0, from |-> "none",
     returned |-> FALSE, raised |-> FALSE]

\* A variant of the loop test: while (start <= end).
LoopCondInclusive(fr) == fr.start <= fr.end

\* while (start < end)
LoopCond(fr) == fr.start < fr.end

\* A variant of done() that answers from the loop bounds: true as soon as the
\* value last yielded is the last of the range.
GeneratorDoneEager(fr) == fr.pt = "final" \/ (fr.pt = "yielded" /\ fr.start + 1 >= fr.end)

\* A variant of done() that is true as soon as the body has been entered.
GeneratorDoneStarted(fr) == fr.pt \in {"yielded", "final"}

\* A variant of done() that is never true.
GeneratorDoneNever(fr) == FALSE

\* bool done() { return mCoroHdl.done(); }: suspended at the final suspend point.
GeneratorDone(fr) == fr.pt = "final"

\* A variant of the destructor's test: if(!mCoroHdl).
HandleBoolInverted(h) == h.mCoroHdl = "null"

\* if(mCoroHdl) of the destructor.
HandleBool(h) == h.mCoroHdl # "null"

\* The implicitly-declared copy constructor of Generator (the struct declares a
\* destructor and no copy or move constructor): memberwise copy of mCoroHdl. It is
\* also what Generator g2 = std::move(g1) selects. <<the new object, the source after>>.
CopyConstruct(src) == <<[life |-> "alive", mCoroHdl |-> src.mCoroHdl], src>>

-----------------------------------------------------------------------------
(* The producer: the body of counter, one statement per step.              *)

Live == term = "running"

InBody(p) == Live /\ running = "producer" /\ frame.pt = p

\* while (start < end): enter the body or fall off the end.
LoopTest ==
    /\ InBody("test")
    /\ frame' = [frame EXCEPT !.pt = IF LoopCond(frame) THEN "co_yield" ELSE "return_void",
                              !.steps = @ + 1]
    /\ UNCHANGED <<handles, running, pc, inNext, out, term, ub, destroys, doneRet>>
    /\ UNCHANGED conceptVars

\* co_yield start: yield_value(start), then the awaiter suspends the frame and
\* control returns to whoever resumed it.
CoYield ==
    /\ InBody("co_yield")
    /\ LET y == YieldValue(frame, frame.start) IN
       /\ frame' = [y.promise EXCEPT !.pt = "yielded", !.steps = @ + 1]
       /\ running' = IF y.awaiter = "suspend_always" THEN "consumer" ELSE "producer"
    /\ UNCHANGED <<handles, pc, inNext, out, term, ub, destroys, doneRet>>
    /\ UNCHANGED conceptVars

\* start++ (reached only by resuming a frame suspended at the co_yield).
Increment ==
    /\ InBody("incr")
    /\ frame' = [frame EXCEPT !.start = @ + 1, !.pt = "test", !.steps = @ + 1]
    /\ UNCHANGED <<handles, running, pc, inNext, out, term, ub, destroys, doneRet>>
    /\ UNCHANGED conceptVars

\* co_await final_suspend(): the frame stays suspended at its final suspend point
\* (with an awaiter that does not suspend, the frame would be freed there).
AfterFinalSuspend == IF FinalSuspend = "suspend_always" THEN "final" ELSE "destroyed"

\* A variant of return_void that resets the promise: void return_void() { mValue = T{}; }
ReturnVoidClears ==
    /\ InBody("return_void")
    /\ frame' = [frame EXCEPT !.pt = AfterFinalSuspend, !.returned = TRUE, !.mValue = 0]
    /\ running' = "consumer"
    /\ UNCHANGED <<handles, pc, inNext, out, term, ub, destroys, doneRet>>
    /\ UNCHANGED conceptVars

\* Falling off the end of the body: return_void() {}, then the final suspension.
ReturnVoid ==
    /\ InBody("return_void")
    /\ frame' = [frame EXCEPT !.pt = AfterFinalSuspend, !.returned = TRUE]
    /\ running' = "consumer"
    /\ UNCHANGED <<handles, pc, inNext, out, term, ub, destroys, doneRet>>
    /\ UNCHANGED conceptVars

Producer == LoopTest \/ CoYield \/ Increment \/ ReturnVoid

\* A statement of a producer body raises: the exception leaves the body, the
\* coroutine's handler calls unhandled_exception(), which calls std::terminate().
\* (Were it to return, the coroutine would go on to its final suspension.) The
\* statements of counter themselves do not throw; the action stands for a
\* producer that does.
Raise ==
    /\ Live /\ running = "producer" /\ frame.pt \in RunningPts
    /\ IF UnhandledException = "terminate"
       THEN /\ frame' = [frame EXCEPT !.raised = TRUE]
            /\ term' = "terminated"
            /\ UNCHANGED running
       ELSE /\ frame' = [frame EXCEPT !.raised = TRUE, !.pt = AfterFinalSuspend]
            /\ running' = "consumer"
            /\ UNCHANGED term
    /\ UNCHANGED <<handles, pc, inNext, out, ub, destroys, doneRet>>
    /\ UNCHANGED conceptVars

-----------------------------------------------------------------------------
(* The operations of Generator, as the effect of one call by the consumer. *)

\* A call of counter(a, b) that builds Generator h over the new frame.
CounterCall(h, a, b, g) ==
    /\ frame' = CounterFrame(a, b, g)
    /\ handles' = [handles EXCEPT ![h] = GetReturnObject]
    /\ running' = IF frame'.pt \in SuspendedPts THEN "consumer" ELSE "producer"

\* h.done(). On a frame that was already destroyed the read is of freed memory:
\* any answer.
DoneCall(h) ==
    IF frame.pt = "destroyed"
    THEN /\ ub' = ub \cup {"done_after_destroy"}
         /\ \E r \in BOOLEAN : doneRet' = {r}
    ELSE /\ ub' = ub
         /\ doneRet' = {GeneratorDone(frame)}

\* A variant of resume() that restarts a frame found at its final suspend point
\* from the first statement of the body.
ResumeCallRestart(h) ==
    IF frame.pt = "destroyed"
    THEN /\ ub' = ub \cup {"resume_after_destroy"}
         /\ \E crash \in BOOLEAN : term' = IF crash THEN "crashed" ELSE term
         /\ UNCHANGED <<frame, running>>
    ELSE /\ frame' = [frame EXCEPT !.from = frame.pt,
                                   !.resumes = @ + 1,
                                   !.start = IF frame.pt = "final" THEN frame.first ELSE @,
                                   !.pt = IF frame.pt = "yielded" THEN "incr" ELSE "test"]
         /\ running' = "producer"
         /\ UNCHANGED <<ub, term>>

\* The first statement of h.next(): mCoroHdl.resume(). Resuming a frame that is at
\* its final suspend point, or that was destroyed, is undefined: the process
\* crashes or the call has no effect.
ResumeCall(h) ==
    IF frame.pt \in {"destroyed", "final"}
    THEN /\ ub' = ub \cup {IF frame.pt = "final" THEN "resume_at_final"
                                                  ELSE "resume_after_destroy"}
         /\ \E crash \in BOOLEAN : term' = IF crash THEN "crashed" ELSE term
         /\ UNCHANGED <<frame, running>>
    ELSE /\ frame' = [frame EXCEPT !.from = frame.pt,
                                   !.resumes = @ + 1,
                                   !.pt = IF frame.pt = "initial" THEN "test" ELSE "incr"]
         /\ running' = "producer"
         /\ UNCHANGED <<ub, term>>

\* The second statement of h.next(): return mCoroHdl.promise().mValue. A promise
\* no yield has written holds an indeterminate value (the one drawn when the
\* frame was made); the promise of a freed frame reads as anything.
NextValues(h) == IF frame.pt = "destroyed" THEN Vals ELSE {frame.mValue}

\* ~Generator() { if(mCoroHdl) mCoroHdl.destroy(); }. destroy() on a frame that
\* was already destroyed is undefined: the process crashes or goes on. after is
\* the process status once the destructor has returned.
DtorCall(h, after) ==
    /\ IF HandleBool(handles[h])
       THEN /\ destroys' = destroys + 1
            /\ IF frame.pt = "destroyed"
               THEN /\ ub' = ub \cup {"double_destroy"}
                    /\ \E crash \in BOOLEAN : term' = IF crash THEN "crashed" ELSE after
                    /\ UNCHANGED frame
               ELSE /\ frame' = [frame EXCEPT !.pt = "destroyed"]
                    /\ term' = after
                    /\ UNCHANGED ub
       ELSE /\ term' = after
            /\ UNCHANGED <<destroys, frame, ub>>
    /\ handles' = [handles EXCEPT ![h].life = IF term' = "crashed" THEN @ ELSE "dead"]

-----------------------------------------------------------------------------
(* main: auto g = counter(a, b); while (!g.done()) std::cout << g.next();  *)
(* return 0. The two arguments are drawn from Vals (the program has 1, 5). *)

AtMain(p) == Live /\ pc = p /\ running = "consumer"

\* auto g = counter(a, b);
MainCounter ==
    /\ AtMain("counter")
    /\ \E a \in Vals, b \in Vals, g \in Vals : CounterCall(1, a, b, g)
    /\ pc' = "while"
    /\ UNCHANGED <<inNext, out, term, ub, destroys, doneRet>>
    /\ UNCHANGED conceptVars

\* A variant of the loop with an empty body: while (!g.done()) ;
MainWhileSpin ==
    /\ AtMain("while")
    /\ DoneCall(1)
    /\ pc' = IF doneRet' = {TRUE} THEN "return" ELSE "while"
    /\ UNCHANGED <<frame, handles, running, inNext, out, term, destroys>>
    /\ UNCHANGED conceptVars

\* while (!g.done())
MainWhile ==
    /\ AtMain("while")
    /\ DoneCall(1)
    /\ pc' = IF doneRet' = {TRUE} THEN "return" ELSE "next"
    /\ UNCHANGED <<frame, handles, running, inNext, out, term, destroys>>
    /\ UNCHANGED conceptVars

\* g.next(), up to the resume
MainNext ==
    /\ AtMain("next")
    /\ ResumeCall(1)
    /\ inNext' = 1
    /\ pc' = "next_ret"
    /\ UNCHANGED <<handles, out, destroys, doneRet>>
    /\ UNCHANGED conceptVars

\* g.next() returns mValue and main writes it: std::cout << g.next() << " "
MainEmit ==
    /\ AtMain("next_ret")
    /\ \E v \in NextValues(1) : out' = Append(out, v)
    /\ inNext' = 0
    /\ pc' = "while"
    /\ UNCHANGED <<frame, handles, running, term, ub, destroys, doneRet>>
    /\ UNCHANGED conceptVars

\* return 0: g goes out of scope, its destructor runs, the process exits.
MainReturn ==
    /\ AtMain("return")
    /\ DtorCall(1, "exited")
    /\ pc' = IF term' = "crashed" THEN pc ELSE "exited"
    /\ UNCHANGED <<running, inNext, out, doneRet>>
    /\ UNCHANGED conceptVars

InitCoro ==
    /\ frame = NoFrame
    /\ handles = [h \in HandleIds |-> NoHandle]
    /\ running = "consumer"
    /\ inNext = 0
    /\ out = <<>>
    /\ term = "running"
    /\ ub = {}
    /\ destroys = 0
    /\ doneRet = {}

NoConcepts ==
    /\ pack = <<>> /\ verdict = [evaluated |-> FALSE, multipliable |-> FALSE]
    /\ call = <<>>
    /\ result = [fn |-> "none", admitted |-> FALSE, wellFormed |-> FALSE,
                 value |-> 0, overflow |-> FALSE]

Init == InitCoro /\ pc = "counter" /\ NoConcepts

Next == MainCounter \/ MainWhile \/ MainNext \/ MainEmit \/ MainReturn \/ Producer

Spec == Init /\ [][Next]_vars

\* main runs on one thread that is never descheduled for ever: as long as the
\* program has a next statement, it is eventually executed.
SpecLive == Init /\ [][Next]_vars /\ WF_vars(Next)

-----------------------------------------------------------------------------
(* A consumer that uses the interface of Generator freely: it calls        *)
(* counter once, initialises further Generators from existing ones, calls  *)
(* done() and next() in any order, and lets Generators go out of scope.    *)

UnbornHandles == {h \in HandleIds : handles[h].life = "unborn"}

Lowest(S) == CHOOSE i \in S : \A j \in S : i <= j

Alive(h) == handles[h].life = "alive"

AtApi == Live /\ pc = "api" /\ running = "consumer"

\* Generator<int> h = counter(a, b);
ApiCounter ==
    /\ AtApi
    /\ frame.pt = "unborn"
    /\ \E a \in Vals, b \in Vals, g \in Vals : CounterCall(Lowest(UnbornHandles), a, b, g)
    /\ UNCHANGED <<pc, inNext, out, term, ub, destroys, doneRet>>
    /\ UNCHANGED conceptVars

\* Generator<int> d = s;  or  Generator<int> d = std::move(s);
ApiCopyInit ==
    /\ AtApi
    /\ UnbornHandles # {}
    /\ \E s \in HandleIds :
          /\ Alive(s)
          /\ LET c == CopyConstruct(handles[s])
             IN handles' = [handles EXCEPT ![Lowest(UnbornHandles)] = c[1], ![s] = c[2]]
    /\ UNCHANGED <<frame, running, pc, inNext, out, term, ub, destroys, doneRet>>
    /\ UNCHANGED conceptVars

\* h.done()
ApiDone ==
    /\ AtApi
    /\ \E h \in HandleIds : Alive(h) /\ HandleBool(handles[h]) /\ DoneCall(h)
    /\ UNCHANGED <<frame, handles, running, pc, inNext, out, term, destroys>>
    /\ UNCHANGED conceptVars

\* h.next(), up to the resume
ApiNext ==
    /\ AtApi
    /\ \E h \in HandleIds :
          /\ Alive(h) /\ HandleBool(handles[h])
          /\ ResumeCall(h)
          /\ inNext' = h
    /\ pc' = "api_next_ret"
    /\ UNCHANGED <<handles, out, destroys, doneRet>>
    /\ UNCHANGED conceptVars

\* h.next() returns mValue to the consumer
ApiNextRet ==
    /\ Live /\ pc = "api_next_ret" /\ running = "consumer"
    /\ inNext' = 0
    /\ pc' = "api"
    /\ UNCHANGED <<frame, handles, running, out, term, ub, destroys, doneRet>>
    /\ UNCHANGED conceptVars

\* h goes out of scope: ~Generator()
ApiDestroy ==
    /\ AtApi
    /\ \E h \in HandleIds : Alive(h) /\ DtorCall(h, term)
    /\ UNCHANGED <<running, pc, inNext, out, doneRet>>
    /\ UNCHANGED conceptVars

InitApi == InitCoro /\ pc = "api" /\ NoConcepts

NextApi ==
    ApiCounter \/ ApiCopyInit \/ ApiDone \/ ApiNext \/ ApiNextRet \/ ApiDestroy \/ Producer

SpecApi == InitApi /\ [][NextApi]_vars

\* The same consumer over a producer whose statements may raise.
NextFault == NextApi \/ Raise

SpecFault == InitApi /\ [][NextFault]_vars

-----------------------------------------------------------------------------
(* The constraint vocabulary of src/cpp/concepts/main.cc, over a universe  *)
(* of argument types: three built-in scalars and the instantiations of     *)
(* Stub<nexcept, operatorStar, validReturnType>.                           *)

Scalar(n) ==
    [kind |-> "scalar", name |-> n,
     nexcept |-> FALSE, operatorStar |-> FALSE, validReturnType |-> FALSE]

\* template<bool nexcept, bool operatorStar, bool validReturnType> struct Stub
Stub(n, s, v) ==
    [kind |-> "stub", name |-> "Stub",
     nexcept |-> n, operatorStar |-> s, validReturnType |-> v]

\* The type of an ill-formed expression.
NoType == Scalar("ill-formed")

IntT == Scalar("int")

DoubleT == Scalar("double")

ShortT == Scalar("short")

Scalars == {IntT, DoubleT, ShortT}

Stubs == {Stub(n, s, v) : n \in BOOLEAN, s \in BOOLEAN, v \in BOOLEAN}

Types == Scalars \cup Stubs

\* using NoMultiply = Stub<true, false, true>; and the three other aliases.
NoMultiply == Stub(TRUE, FALSE, TRUE)

ValidClass == Stub(TRUE, TRUE, TRUE)

NotNoexcept == Stub(FALSE, TRUE, TRUE)

DifferentReturnType == Stub(TRUE, TRUE, FALSE)

\* An operator* that exists only when it is declared non-throwing.
StubHasStarNoexcept(T) == T.nexcept /\ T.operatorStar /\ T.validReturnType

\* Stub& operator*(const Stub& rhs) noexcept(nexcept)
\*     requires(operatorStar && validReturnType)
StubHasStar(T) == T.operatorStar /\ T.validReturnType

\* int operator+(const Stub& rhs) noexcept(nexcept)
\*     requires(operatorStar && not validReturnType)
StubHasPlus(T) == T.operatorStar /\ ~T.validReturnType

\* T&, the lvalue reference to T (a reference to a reference collapses), and
\* the type referred to. An operand of reference type is an expression of the
\* type referred to.
LRef(T) == [T EXCEPT !.kind = IF @ \in {"scalar", "scalar&"} THEN "scalar&" ELSE "stub&"]

RemoveRef(T) == [T EXCEPT !.kind = IF @ \in {"scalar", "scalar&"} THEN "scalar" ELSE "stub"]

\* The type of l * r for an l of type L and an r of type R. Between scalars it
\* is the built-in operator after the usual arithmetic conversions (short is
\* promoted to int); a Stub multiplies only with its own type, through its
\* operator*, which returns Stub&.
MulType(L0, R0) ==
    LET L == RemoveRef(L0)
        R == RemoveRef(R0)
    IN  IF L = NoType \/ R = NoType THEN NoType
        ELSE IF L.kind = "scalar" /\ R.kind = "scalar"
             THEN IF DoubleT \in {L, R} THEN DoubleT ELSE IntT
        ELSE IF L.kind = "stub" /\ R = L /\ StubHasStar(L) THEN L
        ELSE NoType

\* The type of l + r, likewise; Stub's operator+ returns int.
AddType(L0, R0) ==
    LET L == RemoveRef(L0)
        R == RemoveRef(R0)
    IN  IF L = NoType \/ R = NoType THEN NoType
        ELSE IF L.kind = "scalar" /\ R.kind = "scalar"
             THEN IF DoubleT \in {L, R} THEN DoubleT ELSE IntT
        ELSE IF L.kind = "stub" /\ R = L /\ StubHasPlus(L) THEN IntT
        ELSE NoType

Front(p) == SubSeq(p, 1, Len(p) - 1)

\* (... * args): the unary left fold ((a1 * a2) * a3) ...; a pack of one is the
\* operand itself, an empty pack is ill-formed for operator*.
RECURSIVE FoldMulType(_)
FoldMulType(p) ==
    IF Len(p) = 0 THEN NoType
    ELSE IF Len(p) = 1 THEN p[1]
    ELSE MulType(FoldMulType(Front(p)), p[Len(p)])

\* are_same_v<T, Ts...> = std::conjunction_v<std::is_same<T, Ts>...>; it takes
\* at least one type, so an empty pack does not satisfy a constraint that names it.
AreSame(p) == Len(p) >= 1 /\ \A i \in 1..Len(p) : p[i] = p[1]

\* concept Multipliable = requires(Args... args) {
\*     (... * args); requires are_same_v<Args...>; requires sizeof...(Args) > 1; };
Multipliable(p) == FoldMulType(p) # NoType /\ AreSame(p) /\ Len(p) > 1

Packs == UNION {[1..n -> Types] : n \in 0..MaxPack}

NoVerdict == [evaluated |-> FALSE, multipliable |-> FALSE]

\* The compiler evaluates the constraint for the pack.
Evaluate ==
    /\ pc = "concepts" /\ ~verdict.evaluated
    /\ verdict' = [evaluated |-> TRUE, multipliable |-> Multipliable(pack)]
    /\ UNCHANGED <<frame, handles, running, pc, inNext, out, term, ub, destroys, doneRet,
                   pack, call, result>>

NoResult ==
    [fn |-> "none", admitted |-> FALSE, wellFormed |-> FALSE, value |-> 0, overflow |-> FALSE]

InitConcepts ==
    /\ InitCoro /\ pc = "concepts" /\ pack \in Packs /\ verdict = NoVerdict
    /\ call = <<>> /\ result = NoResult

NextConcepts == Evaluate

SpecConcepts == InitConcepts /\ [][NextConcepts]_vars

-----------------------------------------------------------------------------
(* Calls of Add and Multiply. An argument is an expression: its type, its   *)
(* value category, and, for an int, its value (the value of an argument of  *)
(* another type is not modelled and stands as 0).                           *)

BigInt == 2^16

\* The largest value of a 32-bit int.
IntMax == (2^30 - 1) + 2^30

IntVals == (1..MaxArgVal) \cup {BigInt}

CallTypes == {IntT, DoubleT, ValidClass, DifferentReturnType}

Arg(T, lv, v) == [type |-> T, lvalue |-> lv, value |-> v]

Args ==
    {Arg(IntT, lv, v) : lv \in BOOLEAN, v \in IntVals}
        \cup {Arg(T, lv, 0) : T \in CallTypes \ {IntT}, lv \in BOOLEAN}

Calls == UNION {[1..n -> Args] : n \in 0..MaxArgs}

\* Args&&... args is a pack of forwarding references: for an lvalue argument of
\* type T the parameter type deduced is T&, for an rvalue it is T.
Deduce(a) == IF a.lvalue THEN LRef(a.type) ELSE a.type

Deduced(c) == [i \in 1..Len(c) |-> Deduce(c[i])]

\* (... + args), the type of the unary left fold.
RECURSIVE FoldAddType(_)
FoldAddType(p) ==
    IF Len(p) = 0 THEN NoType
    ELSE IF Len(p) = 1 THEN p[1]
    ELSE AddType(FoldAddType(Front(p)), p[Len(p)])

\* Whether a * b, respectively a + b, of two non-negative ints leaves the
\* range of int; the behaviour of the program is then undefined.
MulOverflows(a, b) == a # 0 /\ b > IntMax \div a

AddOverflows(a, b) == a > IntMax - b

\* The value of (... * args) for int arguments: ((a1 * a2) * a3) ...
RECURSIVE FoldMul(_)
FoldMul(c) ==
    IF Len(c) = 1 THEN [value |-> c[1].value, overflow |-> FALSE]
    ELSE LET acc == FoldMul(Front(c))
             x == c[Len(c)].value
         IN  IF acc.overflow \/ MulOverflows(acc.value, x)
             THEN [value |-> 0, overflow |-> TRUE]
             ELSE [value |-> acc.value * x, overflow |-> FALSE]

\* The value of (... + args) for int arguments: ((a1 + a2) + a3) ...
RECURSIVE FoldAdd(_)
FoldAdd(c) ==
    IF Len(c) = 1 THEN [value |-> c[1].value, overflow |-> FALSE]
    ELSE LET acc == FoldAdd(Front(c))
             x == c[Len(c)].value
         IN  IF acc.overflow \/ AddOverflows(acc.value, x)
             THEN [value |-> 0, overflow |-> TRUE]
             ELSE [value |-> acc.value + x, overflow |-> FALSE]

\* What a call returns: the fold's value, or any int once the fold overflowed.
Returned(fn, r, wf) ==
    {[fn |-> fn, admitted |-> TRUE, wellFormed |-> wf, value |-> v, overflow |-> r.overflow] :
        v \in IF r.overflow THEN IntVals \cup {0} ELSE {r.value}}

Rejected(fn) == [NoResult EXCEPT !.fn = fn]

\* template<typename... Args> requires Multipliable<Args...>
MultiplyRequires(p) == Multipliable(p)

\* template<typename... Args> requires are_same_v<Args...>
AddRequires(p) == AreSame(p)

\* auto Multiply(Args&&... args) noexcept { return (... * args); }
CallMultiply ==
    /\ pc = "calls" /\ result.fn = "none"
    /\ IF MultiplyRequires(Deduced(call))
       THEN result' \in Returned("Multiply", FoldMul(call), TRUE)
       ELSE result' = Rejected("Multiply")
    /\ UNCHANGED <<frame, handles, running, pc, inNext, out, term, ub, destroys, doneRet,
                   pack, verdict, call>>

\* auto Add(Args&&... args) noexcept { return (... + args); }: the constraint
\* does not ask for operator+, so a call it admits may still have an ill-formed body.
CallAdd ==
    /\ pc = "calls" /\ result.fn = "none"
    /\ IF AddRequires(Deduced(call))
       THEN IF FoldAddType(Deduced(call)) # NoType
            THEN result' \in Returned("Add", FoldAdd(call), TRUE)
            ELSE result' = [Rejected("Add") EXCEPT !.admitted = TRUE]
       ELSE result' = Rejected("Add")
    /\ UNCHANGED <<frame, handles, running, pc, inNext, out, term, ub, destroys, doneRet,
                   pack, verdict, call>>

InitCalls ==
    /\ InitCoro /\ pc = "calls" /\ pack = <<>> /\ verdict = NoVerdict
    /\ call \in Calls /\ result = NoResult

NextCalls == CallMultiply \/ CallAdd

SpecCalls == InitCalls /\ [][NextCalls]_vars

-----------------------------------------------------------------------------
(* The claims.                                                             *)

\* The values a, a+1, ..., b-1 in order.
RangeSeq(a, b) == [i \in 1..(b - a) |-> a + i - 1]

\* The Generators that are alive and refer to the frame.
Owners == {h \in HandleIds : Alive(h) /\ handles[h].mCoroHdl = "frame"}

\* C1: for a < b, once main has consumed counter(a, b) with the pull loop and
\* returned, it has written exactly a, a+1, ..., b-1, each once and in that
\* order, and the last done() was true.
C1_PullLoopEmitsRange ==
    (pc = "exited" /\ frame.first < frame.end)
        => (out = RangeSeq(frame.first, frame.end) /\ doneRet = {TRUE})

\* C2: at most one live Generator refers to the frame, whatever Generators were
\* created, initialised from one another and destroyed.
C2_ExclusiveOwnership == Cardinality(Owners) <= 1

\* C3: destroy() is invoked at most once on the frame, and the frame is never
\* resumed, queried or destroyed again after it has been destroyed.
C3_DestroyedExactlyOnce ==
    /\ destroys <= 1
    /\ ub \cap {"double_destroy", "resume_after_destroy", "done_after_destroy"} = {}

\* C4: whenever a live frame is observable (suspended), done() is true exactly
\* when the producer has returned and its loop has no further value to yield;
\* it is false at the initial suspension and at every yield.
C4_DoneIffTerminal ==
    frame.pt \in SuspendedPts =>
        /\ GeneratorDone(frame) <=> (frame.returned /\ ~(frame.start < frame.end))
        /\ frame.pt \in {"initial", "yielded"} => ~GeneratorDone(frame)

C4_Witness ==
    /\ frame.pt = "final" /\ doneRet = {TRUE} /\ Len(frame.yields) >= 2
    /\ Owners # {}

\* C5: from the return of counter(a, b) until the first next(), the frame is
\* suspended at its initial suspend point, no statement of the body has run,
\* nothing was yielded or stored, and every done() so far returned false.
C5_LazyStart ==
    (frame.pt \notin {"unborn", "destroyed"} /\ frame.resumes = 0) =>
        /\ frame.pt = "initial"
        /\ running = "consumer"
        /\ frame.steps = 0 /\ frame.start = frame.first
        /\ frame.yields = <<>> /\ ~frame.stored
        /\ ~GeneratorDone(frame)
        /\ doneRet \subseteq {FALSE}

C5_Witness ==
    /\ frame.pt = "initial" /\ frame.resumes = 0 /\ doneRet = {FALSE}
    /\ frame.first < frame.end

\* C6: for counter(a, a) under the pull loop no yield is ever executed and no
\* value is stored in the promise, the first next() takes the frame from its
\* initial to its final suspension, and main writes no value of the range.
C6_EmptyRange ==
    (frame.pt # "unborn" /\ frame.first = frame.end) =>
        /\ frame.yields = <<>> /\ ~frame.stored
        /\ (frame.resumes >= 1 /\ frame.pt \in SuspendedPts)
              => (frame.pt = "final" /\ frame.from = "initial" /\ frame.resumes = 1)
        /\ \A i \in 1..Len(out) : ~(frame.first <= out[i] /\ out[i] < frame.end)

C6_Witness ==
    /\ frame.first = frame.end /\ frame.pt = "final" /\ frame.resumes = 1
    /\ Len(out) = 1 /\ doneRet = {TRUE}

\* How far a frame has come: not started, in the loop, returned, destroyed.
Rank(p) ==
    CASE p = "unborn" -> 0
      [] p = "initial" -> 1
      [] p \in {"test", "co_yield", "yielded", "incr"} -> 2
      [] p \in {"return_void", "final"} -> 3
      [] p = "destroyed" -> 4

ResumeTransitions ==
    {<<"initial", "yielded">>, <<"initial", "final">>,
     <<"yielded", "yielded">>, <<"yielded", "final">>}

C7_Step ==
    /\ (frame'.pt \in SuspendedPts /\ frame'.from # "none")
          => <<frame'.from, frame'.pt>> \in ResumeTransitions
    /\ Rank(frame'.pt) >= Rank(frame.pt)
    /\ frame.pt = "final" => frame'.pt \in {"final", "destroyed"}
    /\ (doneRet = {TRUE} /\ frame'.pt # "destroyed") => doneRet' = {TRUE}

\* C7: a resume takes the frame from its initial suspension to a yield or to the
\* final suspension, and from a yield to a yield or to the final suspension;
\* the frame never goes back (not to the initial suspension, not out of the
\* final one), and once done() has returned true it returns true until the
\* frame is destroyed with its handle.
C7_Monotone == [][C7_Step]_vars

C7_Witness ==
    /\ frame.pt = "final" /\ doneRet = {TRUE} /\ "resume_at_final" \in ub
    /\ Live /\ pc = "api" /\ frame.from = "yielded"

\* C8: once the destructor of a Generator that refers to the frame has run, the
\* frame is destroyed, in whatever state it was.
C8_DestructorReleasesFrame ==
    \A h \in HandleIds :
        (handles[h].life = "dead" /\ handles[h].mCoroHdl = "frame") => frame.pt = "destroyed"

\* Destroyed while suspended at the first of at least two yields.
C8_Witness ==
    /\ frame.pt = "destroyed" /\ destroys = 1
    /\ Len(frame.yields) = 1 /\ frame.end - frame.first >= 2 /\ ~frame.returned
    /\ \E h \in HandleIds : handles[h].life = "dead"

C9_Step ==
    /\ ~frame.raised
    /\ frame'.raised => (term' = "terminated" /\ running' = "producer" /\ inNext' # 0)

\* C9: a fault of the producer inside next() terminates the process: control is
\* never handed back to the consumer and no step is taken after the fault.
C9_FaultTerminates == [][C9_Step]_vars

C9_Witness ==
    /\ frame.raised /\ term = "terminated" /\ pc = "api_next_ret"
    /\ Len(frame.yields) >= 1

\* C10: Multipliable holds exactly when the types are identical, there are at
\* least two, the multiplication fold is well-formed, and the fold's result
\* type is the operand type.
C10_MultipliableIffFour ==
    verdict.evaluated =>
        (verdict.multipliable <=>
            (/\ AreSame(pack)
             /\ Len(pack) >= 2
             /\ FoldMulType(pack) # NoType
             /\ FoldMulType(pack) = pack[1]))

\* The pack <<S, S>> of a Stub instantiation S has been evaluated.
StubPair(S) == verdict.evaluated /\ pack = <<S, S>>

ArgTypes(c) == [i \in 1..Len(c) |-> c[i].type]

IntCall(c) == \A i \in 1..Len(c) : c[i].type = IntT

\* C12: Multiply is admitted exactly when Multipliable holds for the types of
\* its arguments; a single argument and a pair of distinct scalar types are
\* rejected; for int arguments, two or more, it is admitted and returns their
\* product, folded from the left.
C12_MultiplyContract ==
    result.fn = "Multiply" =>
        /\ result.admitted <=> Multipliable(ArgTypes(call))
        /\ Len(call) = 1 => ~result.admitted
        /\ (Len(call) = 2 /\ ArgTypes(call) \in [1..2 -> Scalars] /\ call[1].type # call[2].type)
              => ~result.admitted
        /\ (Len(call) >= 2 /\ IntCall(call))
              => /\ result.admitted
                 /\ ~result.overflow
                 /\ result.value = FoldMul(call).value

\* C13: Add admits every call of one or more arguments of one type and rejects
\* every call with arguments of two different types; an admitted call returns
\* the sum of its arguments folded from the left, a single argument as it is.
C13_AddContract ==
    result.fn = "Add" =>
        /\ (Len(call) >= 1 /\ AreSame(ArgTypes(call))) => result.admitted
        /\ (\E i, j \in 1..Len(call) : call[i].type # call[j].type) => ~result.admitted
        /\ result.admitted =>
              /\ result.wellFormed
              /\ IntCall(call) => result.value = FoldAdd(call).value
              /\ (IntCall(call) /\ Len(call) = 1) => result.value = call[1].value

\* Suspended at the last yield of a non-empty range: the value yielded is end - 1.
AtLastYield == frame.pt = "yielded" /\ frame.start + 1 >= frame.end

C14_Step ==
    /\ AtLastYield => ~GeneratorDone(frame)
    /\ (AtLastYield /\ frame'.resumes = frame.resumes + 1)
          => /\ running' = "producer" /\ frame'.from = "yielded"
             /\ doneRet' = doneRet /\ frame'.pt = "incr"
    /\ (frame'.pt = "final" /\ frame'.first < frame'.end)
          => /\ GeneratorDone(frame')
             /\ frame'.from = "yielded"
             /\ frame'.resumes = Len(frame'.yields) + 1
             /\ Len(frame'.yields) = frame'.end - frame'.first

\* C14: suspended at the producer's last yield, done() is false; a next() there
\* resumes the producer without calling done(), and it is that call, one more
\* than the number of values yielded, that runs the producer to its final
\* suspension, where done() is true.
C14_LastNextReachesFinal == [][C14_Step]_vars

\* done() returned false at the last yield and the next() after it has returned.
C14_Witness ==
    /\ frame.pt = "final" /\ frame.from = "yielded" /\ doneRet = {FALSE}
    /\ frame.resumes = 3 /\ Len(frame.yields) = 2 /\ pc = "api"

Last(q) == q[Len(q)]

C15_Step ==
    /\ (frame.pt # "unborn" /\ frame'.mValue # frame.mValue)
          => (frame.pt = "co_yield" /\ frame'.pt = "yielded" /\ frame'.mValue = frame.start)
    /\ frame.pt = "return_void" => frame'.mValue = frame.mValue
    /\ (frame'.pt = "final" /\ frame'.yields # <<>>) => frame'.mValue = Last(frame'.yields)
    /\ (out' # out /\ frame.pt = "final" /\ frame.yields # <<>>)
          => Last(out') = Last(frame.yields)
    /\ pc = "while" => frame' = frame

\* C15: under the pull loop the promise's value changes only in a co_yield,
\* which stores the value yielded; returning from the body leaves it as it
\* was, so at the final suspension it is the last value yielded, and that is
\* what the next() that reached the final suspension returns; done() leaves
\* the frame as it was.
C15_ValueWrittenOnlyByYield == [][C15_Step]_vars

\* main has written the value of the next() that reached the final suspension.
C15_Witness ==
    /\ frame.pt = "final" /\ pc = "while" /\ Len(frame.yields) >= 2
    /\ Len(out) = Len(frame.yields) + 1 /\ Last(out) = Last(frame.yields)
    /\ frame.mValue = frame.end - 1

\* Control passes from the consumer to the producer, and back.
ToProducer == running = "consumer" /\ running' = "producer"

ToConsumer == running = "producer" /\ running' = "consumer"

ThroughYield == frame.pt = "co_yield" /\ frame'.pt = "yielded"

ThroughFinalSuspend == frame.pt = "return_void" /\ frame'.pt = "final" /\ frame'.returned

\* Exactly one side runs; the producer is entered only by the resume of a
\* next(); the frame is suspended (or does not exist) while the consumer runs
\* and is executing while the producer runs.
HandoffCommon ==
    /\ running' \in {"consumer", "producer"}
    /\ ToProducer => (inNext' # 0 /\ frame'.resumes = frame.resumes + 1
                        /\ frame.pt \in {"initial", "yielded"})
    /\ running' = "consumer" => frame'.pt \notin RunningPts
    /\ running' = "producer" => frame'.pt \in RunningPts

\* C16 as stated: strict handoff, where control passes from the producer back
\* to the consumer only through a yield statement.
C16_HandoffAsStated == [][HandoffCommon /\ (ToConsumer => ThroughYield)]_vars

\* C16: strict handoff: exactly one of consumer and producer runs; control
\* passes to the producer only through next(), and back to the consumer only
\* through a yield statement or through the final suspension when the body
\* returns; while the consumer runs the frame is suspended, never executing.
C16_Handoff == [][HandoffCommon /\ (ToConsumer => (ThroughYield \/ ThroughFinalSuspend))]_vars

\* The consumer is running again after the producer returned, and after a yield.
C16_Witness ==
    /\ running = "consumer" /\ frame.pt = "final" /\ frame.returned
    /\ frame.from = "yielded" /\ inNext # 0 /\ Len(frame.yields) >= 1

Max(x, y) == IF x >= y THEN x ELSE y

\* C17: the pull loop over counter(a, b) terminates for every a and b, a >= b
\* included: done() eventually returns true, after at most max(b - a, 0) + 1
\* calls of next(); the loop variable start never decreases and never exceeds
\* max(a, b).
C17_PullLoopTerminates ==
    /\ <>(doneRet = {TRUE})
    /\ [](frame.resumes <= Max(frame.end - frame.first, 0) + 1)
    /\ [](frame.start <= Max(frame.first, frame.end))
    /\ [][frame.pt # "unborn" => frame'.start >= frame.start]_vars

\* The loop over a range with a > b has ended, after its one call of next().
C17_Witness ==
    /\ pc = "exited" /\ doneRet = {TRUE} /\ frame.first > frame.end
    /\ frame.resumes = 1 /\ frame.start = frame.first

\* C18: under the pull loop next() is called only on a frame suspended at its
\* initial suspension or at a yield, right after a done() that returned false;
\* the frame is never resumed at its final suspension, never resumed, queried
\* or destroyed after it was destroyed, and no undefined behaviour is executed.
C18_PullLoopDisciplined ==
    /\ ub = {} /\ term # "crashed" /\ destroys <= 1
    /\ pc = "next" => (frame.pt \in {"initial", "yielded"} /\ doneRet = {FALSE})
    /\ frame.pt = "final" => frame.resumes = Len(frame.yields) + 1
    /\ frame.pt = "destroyed" => (pc = "exited" /\ term = "exited" /\ destroys = 1)

\* main has run a range of at least two values to its end and exited.
C18_Witness ==
    /\ pc = "exited" /\ term = "exited" /\ frame.pt = "destroyed" /\ ub = {}
    /\ destroys = 1 /\ frame.resumes >= 3 /\ Len(out) = frame.resumes

====
